---- MODULE Spec2Model ----
(***************************************************************************)
(* libsdbootconf: the text codec of systemd-boot entry files and of        *)
(* loader.conf (entry.rs, config.rs) and the aggregate SystemdBootConf     *)
(* that loads and writes a working directory (lib.rs).                     *)
(*                                                                         *)
(* A Rust String is a sequence of one-character strings.  An Option is a   *)
(* sequence of length 0 (None) or 1 (Some).  A Result is a record          *)
(* [ok |-> TRUE, val |-> v] or [ok |-> FALSE, err |-> e].                  *)
(***************************************************************************)
EXTENDS Integers, Sequences, FiniteSets, TLC

VARIABLES
    fs,    \* the file system: absolute path (sequence of names) -> node
    sbc,   \* the SystemdBootConf aggregate: working_dir, config, entries
    op,    \* the last call made: its name and its arguments
    ret    \* what the last call returned

vars == <<fs, sbc, op, ret>>

(***************************************************************************)
(* Characters and strings                                                  *)
(***************************************************************************)
SP == " "
NL == "\n"
CR == "\r"
HASH == "#"
SLASH == "/"
\* A byte of an OsString that is not valid UTF-8, and the character
\* U+FFFD that Path::display puts in its place.
BadByte == "<0xFF>"
Replacement == "<U+FFFD>"

None == <<>>
Some(x) == <<x>>

Ok(v) == [ok |-> TRUE, val |-> v]
Err(e) == [ok |-> FALSE, err |-> e]

\* The `?` operator: an Err returns at once, an Ok hands its value on.
Try(r, Rest(_)) == IF r.ok THEN Rest(r.val) ELSE r

\* LibSDBootConfError
ConfigParseError == [kind |-> "ConfigParseError", arg |-> <<>>]
EntryParseError == [kind |-> "EntryParseError", arg |-> <<>>]
InvalidEntryFilename(path) == [kind |-> "InvalidEntryFilename", arg |-> path]
IOError(kind) == [kind |-> "IOError", arg |-> <<kind>>]
InvalidToken(key) == [kind |-> "InvalidToken", arg |-> key]

\* str::starts_with, str::ends_with, str::strip_suffix
StartsWith(s, p) == Len(s) >= Len(p) /\ SubSeq(s, 1, Len(p)) = p
EndsWith(s, p) == Len(s) >= Len(p) /\ SubSeq(s, Len(s) - Len(p) + 1, Len(s)) = p
StripSuffix(s, p) == IF EndsWith(s, p) THEN Some(SubSeq(s, 1, Len(s) - Len(p))) ELSE None

\* The index of the first occurrence of character c in s, 0 when there is none.
RECURSIVE FindFrom(_, _, _)
FindFrom(s, c, i) ==
    IF i > Len(s) THEN 0
    ELSE IF s[i] = c THEN i
    ELSE FindFrom(s, c, i + 1)
Find(s, c) == FindFrom(s, c, 1)
Contains(s, c) == Find(s, c) # 0

\* str::trim_end_matches('\n')
RECURSIVE TrimEndNL(_)
TrimEndNL(s) ==
    IF s # <<>> /\ s[Len(s)] = NL THEN TrimEndNL(SubSeq(s, 1, Len(s) - 1)) ELSE s

\* str::lines(): lines end at "\n" or "\r\n"; the last line needs no line
\* ending; a carriage return that no "\n" follows stays in the line.
\* LinesAt: i is the index of the first "\n" of s, 0 when there is none.
StripCR(raw) == IF EndsWith(raw, <<CR>>) THEN SubSeq(raw, 1, Len(raw) - 1) ELSE raw
RECURSIVE Lines(_)
LinesAt(s, i) ==
    IF i = 0 THEN <<s>>
    ELSE <<StripCR(SubSeq(s, 1, i - 1))>> \o Lines(SubSeq(s, i + 1, Len(s)))
Lines(s) == IF s = <<>> THEN <<>> ELSE LinesAt(s, Find(s, NL))

\* str::splitn(2, ' '): <<line>> when the line has no space, otherwise
\* <<the text before the first space, the text after it>>.
SplitAt(line, i) ==
    IF i = 0 THEN <<line>>
    ELSE <<SubSeq(line, 1, i - 1), SubSeq(line, i + 1, Len(line))>>
SplitN2(line) == SplitAt(line, Find(line, SP))

RECURSIVE Concat(_)
Concat(ss) == IF ss = <<>> THEN <<>> ELSE Head(ss) \o Concat(Tail(ss))

(***************************************************************************)
(* u32 (Config::timeout), as <<high 16 bits, low 16 bits>>                 *)
(***************************************************************************)
U32Half == 65536
U32(n) == <<n \div U32Half, n % U32Half>>
U32Max == <<U32Half - 1, U32Half - 1>>

Digits == <<"0", "1", "2", "3", "4", "5", "6", "7", "8", "9">>
IsDigit(c) == \E d \in 1..10 : Digits[d] = c
DigitValue(c) == (CHOOSE d \in 1..10 : Digits[d] = c) - 1

\* <u32 as Display>::fmt: decimal, no sign, no leading zeros.
\* U32Digits: q is u / 10 and d is u % 10.
RECURSIVE U32_to_string(_)
U32Digits(q, d) ==
    IF q = <<0, 0>> THEN <<Digits[d + 1]>> ELSE U32_to_string(q) \o <<Digits[d + 1]>>
U32_to_string(u) ==
    U32Digits(<<u[1] \div 10, ((u[1] % 10) * U32Half + u[2]) \div 10>>,
              ((u[1] % 10) * U32Half + u[2]) % 10)

\* <u32 as FromStr>::from_str: an optional "+", then one or more decimal
\* digits, and the value must fit 32 bits; None stands for Err(ParseIntError).
\* U32Push: hi and lo are the halves of acc * 10 + digit before the carry.
RECURSIVE U32ParseDigits(_, _)
U32Push(s, hi, lo) ==
    IF hi + (lo \div U32Half) >= U32Half THEN None
    ELSE U32ParseDigits(s, <<hi + (lo \div U32Half), lo % U32Half>>)
U32ParseDigits(s, acc) ==
    IF s = <<>> THEN Some(acc)
    ELSE IF ~IsDigit(Head(s)) THEN None
    ELSE U32Push(Tail(s), acc[1] * 10, acc[2] * 10 + DigitValue(Head(s)))
U32Unsigned(body) == IF body = <<>> THEN None ELSE U32ParseDigits(body, <<0, 0>>)
U32_from_str(s) == U32Unsigned(IF s # <<>> /\ Head(s) = "+" THEN Tail(s) ELSE s)

\* Result::unwrap_or_default of the parsed timeout
UnwrapOrDefault(n) == IF n = None THEN U32(0) ELSE n[1]

(***************************************************************************)
(* entry.rs: Token                                                         *)
(***************************************************************************)
kTitle == <<"t", "i", "t", "l", "e">>
kVersion == <<"v", "e", "r", "s", "i", "o", "n">>
kMachineID == <<"m", "a", "c", "h", "i", "n", "e", "-", "i", "d">>
kEfi == <<"e", "f", "i">>
kOptions == <<"o", "p", "t", "i", "o", "n", "s">>
kLinux == <<"l", "i", "n", "u", "x">>
kInitrd == <<"i", "n", "i", "t", "r", "d">>

Variants == {"Title", "Version", "MachineID", "Efi", "Options", "Linux", "Initrd"}
\* The variants that wrap a PathBuf.
PathVariants == {"Efi", "Linux", "Initrd"}

Token(variant, value) == [variant |-> variant, val |-> value]

Keyword(variant) ==
    CASE variant = "Title" -> kTitle
      [] variant = "Version" -> kVersion
      [] variant = "MachineID" -> kMachineID
      [] variant = "Efi" -> kEfi
      [] variant = "Options" -> kOptions
      [] variant = "Linux" -> kLinux
      [] variant = "Initrd" -> kInitrd

\* Path::display(): lossy, a non-UTF-8 byte shows as U+FFFD.
PathDisplay(p) == [i \in 1..Len(p) |-> IF p[i] = BadByte THEN Replacement ELSE p[i]]

\* The match of Token::from_str on the parts of the line.
TokenOfParts(parts) ==
    IF Len(parts) < 2 THEN Err(EntryParseError)
    ELSE IF \E v \in Variants : Keyword(v) = parts[1]
    THEN Ok(Token(CHOOSE v \in Variants : Keyword(v) = parts[1], parts[2]))
    ELSE Err(InvalidToken(parts[1]))

\* Token::from_str reporting an unknown keyword as a malformed line.
Token_from_str_Malformed(s) ==
    IF Len(SplitN2(s)) < 2 \/ \A v \in Variants : Keyword(v) # SplitN2(s)[1]
    THEN Err(EntryParseError)
    ELSE TokenOfParts(SplitN2(s))

\* impl FromStr for Token
Token_from_str(s) == TokenOfParts(SplitN2(s))

\* Token::to_string without the line ending.
Token_to_string_NoNewline(t) ==
    Keyword(t.variant) \o <<SP>>
        \o (IF t.variant \in PathVariants THEN PathDisplay(t.val) ELSE t.val)

\* impl ToString for Token
Token_to_string(t) ==
    Keyword(t.variant) \o <<SP>>
        \o (IF t.variant \in PathVariants THEN PathDisplay(t.val) ELSE t.val)
        \o <<NL>>

(***************************************************************************)
(* entry.rs: Entry                                                         *)
(***************************************************************************)
Entry(id, tokens) == [id |-> id, tokens |-> tokens]

\* Entry::new
Entry_new(id, tokens) == Entry(id, tokens)

\* The lines from_str skips: comments and empty lines.
Skipped(line) == StartsWith(line, <<HASH>>) \/ line = <<>>

\* The loop of Entry::from_str skipping comments but not empty lines.
RECURSIVE EntryParseLines_NoBlank(_, _)
EntryParseLines_NoBlank(lines, tokens) ==
    IF lines = <<>> THEN Ok(Entry(<<>>, tokens))
    ELSE IF StartsWith(Head(lines), <<HASH>>)
    THEN EntryParseLines_NoBlank(Tail(lines), tokens)
    ELSE Try(Token_from_str(Head(lines)),
             LAMBDA t : EntryParseLines_NoBlank(Tail(lines), Append(tokens, t)))

\* The loop of Entry::from_str over the lines still to read.
RECURSIVE EntryParseLines(_, _)
EntryParseLines(lines, tokens) ==
    IF lines = <<>> THEN Ok(Entry(<<>>, tokens))
    ELSE IF Skipped(Head(lines)) THEN EntryParseLines(Tail(lines), tokens)
    ELSE Try(Token_from_str(Head(lines)),
             LAMBDA t : EntryParseLines(Tail(lines), Append(tokens, t)))

\* impl FromStr for Entry
Entry_from_str(s) == EntryParseLines(Lines(s), <<>>)

\* impl ToString for Entry
Entry_to_string(e) == Concat([i \in 1..Len(e.tokens) |-> Token_to_string(e.tokens[i])])

(***************************************************************************)
(* config.rs: Config                                                       *)
(***************************************************************************)
kDefault == <<"d", "e", "f", "a", "u", "l", "t">>
kTimeout == <<"t", "i", "m", "e", "o", "u", "t">>
kDotConf == <<".", "c", "o", "n", "f">>

Config(default, timeout) == [default |-> default, timeout |-> timeout]
\* Config::default()
Config_default == Config(None, None)

\* One line of Config::from_str, given its parts: the config after it.
ConfigLine(config, parts) ==
    IF Len(parts) < 2 THEN Err(ConfigParseError)
    ELSE IF parts[1] = kDefault THEN Ok([config EXCEPT !.default = Some(parts[2])])
    ELSE IF parts[1] = kTimeout
    THEN Ok([config EXCEPT !.timeout = Some(UnwrapOrDefault(U32_from_str(parts[2])))])
    ELSE Ok(config)

\* The loop of Config::from_str over the lines still to read.
RECURSIVE ConfigParseLines(_, _)
ConfigParseLines(lines, config) ==
    IF lines = <<>> THEN Ok(config)
    ELSE IF Skipped(Head(lines)) THEN ConfigParseLines(Tail(lines), config)
    ELSE Try(ConfigLine(config, SplitN2(Head(lines))),
             LAMBDA c : ConfigParseLines(Tail(lines), c))

\* Config::from_str with an absent timeout read as 0.
Config_from_str_TimeoutZero(s) == ConfigParseLines(Lines(s), Config(None, Some(U32(0))))

\* impl FromStr for Config
Config_from_str(s) == ConfigParseLines(Lines(s), Config_default)

\* impl ToString for Config
Config_to_string(c) ==
    (IF c.default # None THEN kDefault \o <<SP>> \o c.default[1] \o <<NL>> ELSE <<>>)
        \o (IF c.timeout # None
            THEN kTimeout \o <<SP>> \o U32_to_string(c.timeout[1]) \o <<NL>>
            ELSE <<>>)

\* Config::new
Config_new(default, timeout) == Config(default, timeout)

\* Config::set_default appending ".conf" whatever the id ends with.
Config_set_default_Append(config, entry) ==
    [config EXCEPT !.default = Some(entry.id \o kDotConf)]

\* Config::set_default
Config_set_default(config, entry) ==
    [config EXCEPT !.default =
        Some(entry.id \o (IF ~EndsWith(entry.id, kDotConf) THEN kDotConf ELSE <<>>))]

(***************************************************************************)
(* std::path and std::fs.  A Path is a string; a node of the file system   *)
(* is addressed by the sequence of names from the root.  A directory node  *)
(* lists its children in the order read_dir enumerates them.               *)
(***************************************************************************)
File(data) == [kind |-> "file", data |-> data, list |-> <<>>]
Dir(list) == [kind |-> "dir", data |-> <<>>, list |-> list]

\* Path::join: an absolute argument replaces the base.
PathJoin(base, rel) ==
    IF StartsWith(rel, <<SLASH>>) \/ base = <<>> THEN rel
    ELSE IF EndsWith(base, <<SLASH>>) THEN base \o rel
    ELSE base \o <<SLASH>> \o rel

\* The pieces of a path between its separators, empty ones included.
\* SplitPathAt: i is the index of the first separator of p, 0 when none.
RECURSIVE SplitPath(_)
SplitPathAt(p, i) ==
    IF i = 0 THEN <<p>>
    ELSE <<SubSeq(p, 1, i - 1)>> \o SplitPath(SubSeq(p, i + 1, Len(p)))
SplitPath(p) == SplitPathAt(p, Find(p, SLASH))

kDot == <<".">>
kDotDot == <<".", ".">>

\* Path::file_name: the last component when it is a normal one; repeated
\* separators, "." components and a trailing separator are not components.
LastNormal(comps) ==
    IF comps = <<>> \/ comps[Len(comps)] = kDotDot THEN None
    ELSE Some(comps[Len(comps)])
FileName(p) == LastNormal(SelectSeq(SplitPath(p), LAMBDA c : c # <<>> /\ c # kDot))

\* Path resolution: every piece but the last must name a directory.
RECURSIVE Walk(_, _, _)
Walk(f, pieces, cur) ==
    IF pieces = <<>> THEN Ok(cur)
    ELSE IF cur \notin DOMAIN f THEN Err(IOError("NotFound"))
    ELSE IF f[cur].kind # "dir" THEN Err(IOError("NotADirectory"))
    ELSE IF Head(pieces) = <<>> \/ Head(pieces) = kDot THEN Walk(f, Tail(pieces), cur)
    ELSE IF Head(pieces) = kDotDot
    THEN Walk(f, Tail(pieces), IF cur = <<>> THEN cur ELSE SubSeq(cur, 1, Len(cur) - 1))
    ELSE Walk(f, Tail(pieces), Append(cur, Head(pieces)))
Resolve(f, p) ==
    IF p = <<>> THEN Err(IOError("NotFound")) ELSE Walk(f, SplitPath(p), <<>>)

\* Path::is_file
IsFileAt(f, r) == r.ok /\ r.val \in DOMAIN f /\ f[r.val].kind = "file"
IsFile(f, p) == IsFileAt(f, Resolve(f, p))

\* fs::read_to_string
ReadNode(f, node) ==
    IF node \notin DOMAIN f THEN Err(IOError("NotFound"))
    ELSE IF f[node].kind = "dir" THEN Err(IOError("IsADirectory"))
    ELSE IF Contains(f[node].data, BadByte) THEN Err(IOError("InvalidData"))
    ELSE Ok(f[node].data)
ReadToString(f, p) == Try(Resolve(f, p), LAMBDA node : ReadNode(f, node))

\* fs::read_dir, the names in enumeration order
ListNode(f, node) ==
    IF node \notin DOMAIN f THEN Err(IOError("NotFound"))
    ELSE IF f[node].kind # "dir" THEN Err(IOError("NotADirectory"))
    ELSE Ok(f[node].list)
ReadDir(f, p) == Try(Resolve(f, p), LAMBDA node : ListNode(f, node))

\* fs::write: creates the file or truncates it; returns the result and the
\* file system after the call.  Where the directory enumerates a new name
\* is not specified: `front` says whether it comes first or last.
CreateNode(f, parent, name, data, front) ==
    (Append(parent, name) :> File(data))
        @@ [f EXCEPT ![parent] = Dir(IF front THEN <<name>> \o f[parent].list
                                     ELSE Append(f[parent].list, name))]
WriteNode(f, r, data, front) ==
    IF ~r.ok THEN [ret |-> r, fs |-> f]
    ELSE IF r.val \notin DOMAIN f
    THEN [ret |-> Ok(<<>>),
          fs |-> CreateNode(f, SubSeq(r.val, 1, Len(r.val) - 1), r.val[Len(r.val)],
                            data, front)]
    ELSE IF f[r.val].kind = "dir" THEN [ret |-> Err(IOError("IsADirectory")), fs |-> f]
    ELSE [ret |-> Ok(<<>>), fs |-> [f EXCEPT ![r.val] = File(data)]]
FsWrite(f, p, data, front) == WriteNode(f, Resolve(f, p), data, front)

(***************************************************************************)
(* entry.rs, config.rs: the file operations                                *)
(***************************************************************************)
\* Entry::load taking the whole file name as the id.
IdOfName_KeepSuffix(path, name) ==
    IF name = None \/ Contains(name[1], BadByte) \/ ~EndsWith(name[1], kDotConf)
    THEN Err(InvalidEntryFilename(path))
    ELSE Ok(name[1])

\* The id Entry::load takes from the path: the file name, which must be
\* valid UTF-8 and end with ".conf", without that suffix.
IdOfName(path, name) ==
    IF name = None \/ Contains(name[1], BadByte) \/ ~EndsWith(name[1], kDotConf)
    THEN Err(InvalidEntryFilename(path))
    ELSE Ok(StripSuffix(name[1], kDotConf)[1])
EntryId(path) == IdOfName(path, FileName(path))

\* Entry::load
Entry_load(f, path) ==
    Try(EntryId(path), LAMBDA id :
        Try(ReadToString(f, path), LAMBDA text :
            Try(Entry_from_str(text), LAMBDA entry : Ok([entry EXCEPT !.id = id]))))

\* Entry::write taking the path for a directory.
Entry_write_UnderPath(f, entry, path, front) ==
    FsWrite(f, PathJoin(path, entry.id \o kDotConf), Entry_to_string(entry), front)

\* Entry::write
Entry_write(f, entry, path, front) == FsWrite(f, path, Entry_to_string(entry), front)

\* Config::load
Config_load(f, path) == Try(ReadToString(f, path), LAMBDA text : Config_from_str(text))

\* Config::write
Config_write(f, config, path, front) == FsWrite(f, path, Config_to_string(config), front)

\* Config::default_entry yielding nothing when the load fails.
Config_default_entry_Swallow(f, config, directory) ==
    IF config.default = None \/ ~Entry_load(f, PathJoin(directory, config.default[1])).ok
    THEN Ok(None)
    ELSE Ok(Some(Entry_load(f, PathJoin(directory, config.default[1])).val))

\* Config::default_entry
Config_default_entry(f, config, directory) ==
    IF config.default = None THEN Ok(None)
    ELSE Try(Entry_load(f, PathJoin(directory, config.default[1])),
             LAMBDA entry : Ok(Some(entry)))

(***************************************************************************)
(* lib.rs: SystemdBootConf                                                 *)
(***************************************************************************)
kLoaderConf == <<"l", "o", "a", "d", "e", "r">> \o kDotConf
kEntries == <<"e", "n", "t", "r", "i", "e", "s">>

SystemdBootConf(working_dir, config, entries) ==
    [working_dir |-> working_dir, config |-> config, entries |-> entries]

\* SystemdBootConf::new
SystemdBootConf_new(working_dir, config, entries) ==
    SystemdBootConf(working_dir, config, entries)

\* SystemdBootConf::init
SystemdBootConf_init(working_dir) == SystemdBootConf(working_dir, Config_default, <<>>)

\* The loop of load_current loading every name, regular file or not.
RECURSIVE LoadEntries_NoIsFile(_, _, _, _)
LoadEntries_NoIsFile(f, dir, names, entries) ==
    IF names = <<>> THEN Ok(entries)
    ELSE Try(Entry_load(f, PathJoin(dir, Head(names))),
             LAMBDA entry : LoadEntries_NoIsFile(f, dir, Tail(names), Append(entries, entry)))

\* The loop of load_current over the names read_dir still has to yield:
\* a name that is not a regular file is passed over.
RECURSIVE LoadEntries(_, _, _, _)
LoadEntries(f, dir, names, entries) ==
    IF names = <<>> THEN Ok(entries)
    ELSE IF IsFile(f, PathJoin(dir, Head(names)))
    THEN Try(Entry_load(f, PathJoin(dir, Head(names))),
             LAMBDA entry : LoadEntries(f, dir, Tail(names), Append(entries, entry)))
    ELSE LoadEntries(f, dir, Tail(names), entries)

\* The two reads of load_current: the config and the entries it would assign.
ReadCurrent(f, working_dir) ==
    Try(Config_load(f, PathJoin(working_dir, kLoaderConf)), LAMBDA config :
        Try(ReadDir(f, PathJoin(working_dir, kEntries)), LAMBDA names :
            Try(LoadEntries(f, PathJoin(working_dir, kEntries), names, <<>>),
                LAMBDA entries : Ok([config |-> config, entries |-> entries]))))

\* The assignments of load_current, made once both reads have succeeded.
AssignCurrent(self, r) ==
    IF r.ok
    THEN [ret |-> Ok(<<>>),
          self |-> [self EXCEPT !.config = r.val.config, !.entries = r.val.entries]]
    ELSE [ret |-> r, self |-> self]

\* load_current assigning the config before it reads the entries.
load_current_ConfigFirst(f, self) ==
    IF Config_load(f, PathJoin(self.working_dir, kLoaderConf)).ok
    THEN AssignCurrent(
             [self EXCEPT !.config = Config_load(f, PathJoin(self.working_dir, kLoaderConf)).val],
             ReadCurrent(f, self.working_dir))
    ELSE AssignCurrent(self, ReadCurrent(f, self.working_dir))

\* SystemdBootConf::load_current: the result and the aggregate after the call.
load_current(f, self) == AssignCurrent(self, ReadCurrent(f, self.working_dir))

\* SystemdBootConf::load: the result carries the aggregate.
Loaded(r) == IF r.ret.ok THEN Ok(r.self) ELSE r.ret
SystemdBootConf_load(f, working_dir) ==
    Loaded(load_current(f, SystemdBootConf_init(working_dir)))

\* SystemdBootConf::write_config
write_config(f, self, front) ==
    Config_write(f, self.config, PathJoin(self.working_dir, kLoaderConf), front)

\* The path write_entries gives Entry::write.
EntryPath(self, entry) ==
    PathJoin(PathJoin(self.working_dir, kEntries), entry.id \o kDotConf)

\* The `?` operator on a write: w is [ret, fs]; an Err returns at once with
\* the file system as the failed write left it.
Then(w, Rest(_)) == IF w.ret.ok THEN Rest(w.fs) ELSE w

\* The loop of write_entries going on after a write that failed.
RECURSIVE WriteEntriesFrom_NoStop(_, _, _, _)
WriteEntriesFrom_NoStop(f, self, i, front) ==
    IF i > Len(self.entries) THEN [ret |-> Ok(<<>>), fs |-> f]
    ELSE LET w == Entry_write(f, self.entries[i], EntryPath(self, self.entries[i]), front)
             rest == WriteEntriesFrom_NoStop(w.fs, self, i + 1, front)
         IN  [ret |-> IF w.ret.ok THEN rest.ret ELSE w.ret, fs |-> rest.fs]

\* The loop of write_entries over the entries still to write.
RECURSIVE WriteEntriesFrom(_, _, _, _)
WriteEntriesFrom(f, self, i, front) ==
    IF i > Len(self.entries) THEN [ret |-> Ok(<<>>), fs |-> f]
    ELSE Then(Entry_write(f, self.entries[i], EntryPath(self, self.entries[i]), front),
              LAMBDA g : WriteEntriesFrom(g, self, i + 1, front))

\* SystemdBootConf::write_entries
write_entries(f, self, front) == WriteEntriesFrom(f, self, 1, front)

\* write_all writing the entries only.
write_all_EntriesOnly(f, self, front) == write_entries(f, self, front)

\* SystemdBootConf::write_all
write_all(f, self, front) ==
    Then(write_config(f, self, front), LAMBDA g : write_entries(g, self, front))

(***************************************************************************)
(* CodecSpec: the text codec alone.  The initial state draws one input;    *)
(* the actions apply to_string, from_str and set_default to it.  `op.of`   *)
(* says what the argument of the last call was made from: <<"rendered",    *)
(* the value rendered>>, <<"lines", the lines of the text>>,               *)
(* <<"set_default", the arguments of set_default>>, or None.               *)
(***************************************************************************)
MaxPayloadLen == 2
MaxTokens == 2
MaxLines == 3

\* All sequences over `chars` of length at most n.
SeqsUpTo(chars, n) == UNION {[1..k -> chars] : k \in 0..n}

StringChars == {"a", SP, NL, CR, HASH}
PathChars == {"a", SLASH, SP, NL, CR, BadByte}
TokenInputs ==
    {Token(v, s) : v \in Variants \ PathVariants, s \in SeqsUpTo(StringChars, MaxPayloadLen)}
        \cup {Token(v, s) : v \in PathVariants, s \in SeqsUpTo(PathChars, MaxPayloadLen)}

TokenSamples ==
    { Token("Title", <<"a">>), Token("Options", <<"a", SP, "a">>),
      Token("Linux", <<SLASH, "a">>), Token("Version", <<>>),
      Token("Title", <<"a", NL, "a">>), Token("MachineID", <<"a", CR>>),
      Token("Efi", <<BadByte>>) }
IdSamples == {<<>>, <<"a">>, <<"a">> \o kDotConf, kDotConf, <<"a">> \o kDotConf \o <<"a">>}
EntryInputs == {Entry_new(<<"a">>, ts) : ts \in SeqsUpTo(TokenSamples, MaxTokens)}

TimeoutSamples == {U32(0), U32(5), U32(10), U32(U32Half), U32Max}
ConfigInputs ==
    {Config_new(d, t) :
        d \in {None} \cup {Some(s) : s \in SeqsUpTo(StringChars, MaxPayloadLen)},
        t \in {None} \cup {Some(u) : u \in TimeoutSamples}}

SetDefaultInputs ==
    {[config |-> Config_new(d, t), entry |-> Entry_new(id, <<>>)] :
        d \in {None, Some(<<"a">>)}, t \in {None, Some(U32(5))}, id \in IdSamples}

kBogus == <<"b", "o", "g", "u", "s">>
kEditor == <<"e", "d", "i", "t", "o", "r">>
EntryLineSamples ==
    { <<>>, <<HASH, SP, "c">>, kTitle \o <<SP, "a">>, kLinux \o <<SP, SLASH, "a">>,
      kBogus \o <<SP, "x">>, kTitle, kEditor \o <<SP, "n", "o">> }
ConfigLineSamples ==
    { <<>>, <<HASH, SP, "c">>, kDefault \o <<SP, "a">> \o kDotConf, kTimeout \o <<SP, "5">>,
      kTimeout \o <<SP, "x">>, kEditor \o <<SP, "n", "o">>, kEditor }

\* A text given by its lines, each ended by "\n" or by "\r\n", the last
\* one ended or not.
TextInputs(samples) ==
    {[lines |-> ls, crlf |-> c, final |-> f] :
        ls \in SeqsUpTo(samples, MaxLines), c \in BOOLEAN, f \in BOOLEAN}
JoinLines(t) ==
    LET eol == IF t.crlf THEN <<CR, NL>> ELSE <<NL>> IN
    Concat([i \in 1..Len(t.lines) |->
        t.lines[i] \o (IF i < Len(t.lines) \/ t.final THEN eol ELSE <<>>)])

CodecInputs ==
    {[type |-> "Token", v |-> t] : t \in TokenInputs}
        \cup {[type |-> "Entry", v |-> e] : e \in EntryInputs}
        \cup {[type |-> "Config", v |-> c] : c \in ConfigInputs}
        \cup {[type |-> "SetDefault", v |-> x] : x \in SetDefaultInputs}
        \cup {[type |-> "EntryText", v |-> t] : t \in TextInputs(EntryLineSamples)}
        \cup {[type |-> "ConfigText", v |-> t] : t \in TextInputs(ConfigLineSamples)}

Call(name, arg, of) == [name |-> name, arg |-> arg, of |-> of]

EmptyFs == <<>> :> Dir(<<>>)

CodecInit ==
    /\ fs = EmptyFs
    /\ sbc = SystemdBootConf_init(<<>>)
    /\ \E x \in CodecInputs : op = Call("input", x, None)
    /\ ret = None

IsInput(type) == op.name = "input" /\ op.arg.type = type

TokenToString ==
    /\ IsInput("Token")
    /\ op' = Call("Token::to_string", op.arg.v, None)
    /\ ret' = Token_to_string(op.arg.v)
    /\ UNCHANGED <<fs, sbc>>

\* Token::from_str on the line just rendered, its line ending taken off.
TokenFromStr ==
    /\ op.name = "Token::to_string"
    /\ op' = Call("Token::from_str", TrimEndNL(ret), <<"rendered", op.arg>>)
    /\ ret' = Token_from_str(TrimEndNL(ret))
    /\ UNCHANGED <<fs, sbc>>

EntryToString ==
    /\ IsInput("Entry")
    /\ op' = Call("Entry::to_string", op.arg.v, None)
    /\ ret' = Entry_to_string(op.arg.v)
    /\ UNCHANGED <<fs, sbc>>

\* Entry::from_str on the text just rendered, or on an input text.
EntryFromStr ==
    /\ \/ /\ op.name = "Entry::to_string"
          /\ op' = Call("Entry::from_str", ret, <<"rendered", op.arg>>)
          /\ ret' = Entry_from_str(ret)
       \/ /\ IsInput("EntryText")
          /\ op' = Call("Entry::from_str", JoinLines(op.arg.v), <<"lines", op.arg.v>>)
          /\ ret' = Entry_from_str(JoinLines(op.arg.v))
    /\ UNCHANGED <<fs, sbc>>

\* Config::set_default, also ConfigBuilder::default_entry
SetDefaultCall ==
    /\ IsInput("SetDefault")
    /\ op' = Call("Config::set_default", op.arg.v, None)
    /\ ret' = Config_set_default(op.arg.v.config, op.arg.v.entry)
    /\ UNCHANGED <<fs, sbc>>

\* Config::to_string on an input Config, or on the Config set_default left.
ConfigToString ==
    /\ \/ /\ IsInput("Config")
          /\ op' = Call("Config::to_string", op.arg.v, None)
          /\ ret' = Config_to_string(op.arg.v)
       \/ /\ op.name = "Config::set_default"
          /\ op' = Call("Config::to_string", ret, <<"set_default", op.arg>>)
          /\ ret' = Config_to_string(ret)
    /\ UNCHANGED <<fs, sbc>>

\* Config::from_str on the text just rendered, or on an input text.
ConfigFromStr ==
    /\ \/ /\ op.name = "Config::to_string" /\ op.of = None
          /\ op' = Call("Config::from_str", ret, <<"rendered", op.arg>>)
          /\ ret' = Config_from_str(ret)
       \/ /\ IsInput("ConfigText")
          /\ op' = Call("Config::from_str", JoinLines(op.arg.v), <<"lines", op.arg.v>>)
          /\ ret' = Config_from_str(JoinLines(op.arg.v))
    /\ UNCHANGED <<fs, sbc>>

CodecNext ==
    \/ TokenToString
    \/ TokenFromStr
    \/ EntryToString
    \/ EntryFromStr
    \/ SetDefaultCall
    \/ ConfigToString
    \/ ConfigFromStr

CodecSpec == CodecInit /\ [][CodecNext]_vars

(***************************************************************************)
(* Properties of the codec, checked under CodecSpec                        *)
(***************************************************************************)
Parsed(name, how) == op.name = name /\ op.of # None /\ op.of[1] = how

\* C1 as stated: for every Token t, parsing the line rendered from t (its
\* line ending removed) yields t, and for every Entry e, parsing render(e)
\* succeeds with the tokens of e in the same order.
C1_RoundTripEveryToken ==
    /\ Parsed("Token::from_str", "rendered") => ret = Ok(op.of[2])
    /\ Parsed("Entry::from_str", "rendered") =>
           ret.ok /\ ret.val.tokens = op.of[2].tokens

\* A payload the line format can carry: valid Unicode, no line feed inside
\* and no carriage return at its end.
OneLinePayload(s) ==
    /\ \A i \in 1..Len(s) : s[i] # NL /\ s[i] # BadByte
    /\ s = <<>> \/ s[Len(s)] # CR

\* C1, amended: for every Token t whose payload is valid Unicode and does
\* not end in a line feed, parsing the line rendered from t yields t; for
\* every Entry whose payloads are valid Unicode, hold no line feed and do
\* not end in a carriage return, parsing render(e) succeeds with the tokens
\* of e in the same order.
C1_RoundTrip ==
    /\ Parsed("Token::from_str", "rendered") =>
           LET t == op.of[2] IN
           (~Contains(t.val, BadByte) /\ (t.val = <<>> \/ t.val[Len(t.val)] # NL))
               => ret = Ok(t)
    /\ Parsed("Entry::from_str", "rendered") =>
           LET e == op.of[2] IN
           (\A i \in 1..Len(e.tokens) : OneLinePayload(e.tokens[i].val))
               => ret.ok /\ ret.val.tokens = e.tokens

\* An Entry of two tokens, one of them a path, has been rendered and parsed back.
C1_Witness ==
    /\ Parsed("Entry::from_str", "rendered")
    /\ op.of[2].tokens = <<Token("Title", <<"a">>), Token("Linux", <<SLASH, "a">>)>>
    /\ ret.ok /\ ret.val.tokens = op.of[2].tokens

\* C2 as stated: for every Config c, parsing render(c) yields c.
C2_RoundTripEveryConfig ==
    Parsed("Config::from_str", "rendered") => ret = Ok(op.of[2])

\* C2, amended: for every Config c whose default, when set, holds no line
\* feed and does not end in a carriage return, in each of the four field
\* combinations, parsing render(c) yields c: an unset field stays unset.
C2_RoundTrip ==
    Parsed("Config::from_str", "rendered") =>
        LET c == op.of[2] IN
        (c.default = None \/ OneLinePayload(c.default[1])) => ret = Ok(c)

\* A Config with only its timeout set came back with its default unset.
C2_Witness ==
    /\ Parsed("Config::from_str", "rendered")
    /\ op.of[2] = Config(None, Some(U32Max))
    /\ ret.ok /\ ret.val.default = None /\ ret.val.timeout = Some(U32Max)

WithDotConf(id) == IF EndsWith(id, kDotConf) THEN id ELSE id \o kDotConf

\* C6: set_default sets config.default to e.id when e.id ends with ".conf"
\* and to e.id + ".conf" otherwise, leaves the timeout alone, and the text
\* rendered afterwards starts with the line "default <that name>".
C6_SetDefault ==
    /\ op.name = "Config::set_default" =>
           /\ ret.default = Some(WithDotConf(op.arg.entry.id))
           /\ ret.timeout = op.arg.config.timeout
    /\ (op.name = "Config::to_string" /\ op.of # None) =>
           StartsWith(ret, kDefault \o <<SP>> \o WithDotConf(op.of[2].entry.id) \o <<NL>>)

\* The entry with id "a.conf" was made the default and the Config rendered.
C6_Witness ==
    /\ op.name = "Config::to_string" /\ op.of # None
    /\ op.of[2].entry.id = <<"a">> \o kDotConf
    /\ op.of[2].config.timeout = Some(U32(5))
    /\ ret = kDefault \o <<SP, "a">> \o kDotConf \o <<NL>> \o kTimeout \o <<SP, "5", NL>>

\* The lines of a text that are neither empty nor comments.
Counts(line) == line # <<>> /\ line[1] # HASH
HasSpace(line) == \E i \in 1..Len(line) : line[i] = SP
KeyOf(line) ==
    IF HasSpace(line)
    THEN SubSeq(line, 1, (CHOOSE i \in 1..Len(line) :
                             line[i] = SP /\ \A j \in 1..(i - 1) : line[j] # SP) - 1)
    ELSE line
EntryKeywords == {Keyword(v) : v \in Variants}
ConfigKeys == {kDefault, kTimeout}
Without(t, i) ==
    [t EXCEPT !.lines = SubSeq(t.lines, 1, i - 1) \o SubSeq(t.lines, i + 1, Len(t.lines))]

\* C7 as stated: an entry text with any line whose keyword is not one of
\* the seven fails with the unknown-keyword error carrying that keyword; a
\* loader.conf text with a line whose key is neither default nor timeout
\* parses successfully to the Config of the text without that line.
C7_AnyUnknownKey ==
    /\ Parsed("Entry::from_str", "lines") =>
           LET ls == op.of[2].lines IN
           \A i \in 1..Len(ls) :
               (Counts(ls[i]) /\ KeyOf(ls[i]) \notin EntryKeywords)
                   => ret = Err(InvalidToken(KeyOf(ls[i])))
    /\ Parsed("Config::from_str", "lines") =>
           LET ls == op.of[2].lines IN
           \A i \in 1..Len(ls) :
               (Counts(ls[i]) /\ KeyOf(ls[i]) \notin ConfigKeys)
                   => ret.ok /\ ret = Config_from_str(JoinLines(Without(op.of[2], i)))

\* The lines of an entry text that Token::from_str refuses.
Refused(line) == Counts(line) /\ (~HasSpace(line) \/ KeyOf(line) \notin EntryKeywords)

\* C7, amended: an entry text fails on its first line that has no value or
\* an unknown keyword, with the unknown-keyword error carrying that line's
\* keyword when the line has a value and the malformed-line error when it
\* has none, and yields no Entry; a loader.conf line "key value" whose key
\* is neither default nor timeout changes nothing: the text parses to the
\* same result as the text without that line, and a text all of whose lines
\* have a value parses successfully.
C7_UnknownKey ==
    /\ Parsed("Entry::from_str", "lines") =>
           LET ls == op.of[2].lines IN
           \A i \in 1..Len(ls) :
               (Refused(ls[i]) /\ \A j \in 1..(i - 1) : ~Refused(ls[j]))
                   => ret = Err(IF HasSpace(ls[i]) THEN InvalidToken(KeyOf(ls[i]))
                                ELSE EntryParseError)
    /\ Parsed("Config::from_str", "lines") =>
           LET ls == op.of[2].lines IN
           /\ \A i \in 1..Len(ls) :
                  (Counts(ls[i]) /\ HasSpace(ls[i]) /\ KeyOf(ls[i]) \notin ConfigKeys)
                      => ret = Config_from_str(JoinLines(Without(op.of[2], i)))
           /\ (\A i \in 1..Len(ls) : Counts(ls[i]) => HasSpace(ls[i])) => ret.ok

\* An entry text "title a", "bogus x" was refused for its keyword bogus.
C7_Witness ==
    /\ Parsed("Entry::from_str", "lines")
    /\ op.of[2].lines = <<kTitle \o <<SP, "a">>, kBogus \o <<SP, "x">>>>
    /\ ret = Err(InvalidToken(kBogus))

Stripped(t) == [t EXCEPT !.lines = SelectSeq(t.lines, Counts)]

\* C8: for the Entry parser and the Config parser, a text with comment
\* lines and empty lines at any positions parses to the same result, value
\* or error, as the text with those lines removed.
C8_CommentBlankTolerance ==
    /\ Parsed("Entry::from_str", "lines") =>
           ret = Entry_from_str(JoinLines(Stripped(op.of[2])))
    /\ Parsed("Config::from_str", "lines") =>
           ret = Config_from_str(JoinLines(Stripped(op.of[2])))

\* An entry text with a comment line and an empty line around its one
\* token line parsed to that one token.
C8_Witness ==
    /\ Parsed("Entry::from_str", "lines")
    /\ op.of[2].lines = <<<<HASH, SP, "c">>, kTitle \o <<SP, "a">>, <<>>>>
    /\ ret = Ok(Entry(<<>>, <<Token("Title", <<"a">>)>>))

(***************************************************************************)
(* The file systems and the values the callers below start from: a file    *)
(* system holds two working directories, /s (an installation) and /d (a    *)
(* new one).                                                               *)
(***************************************************************************)
MaxFiles == 2
MaxEntries == 2

nS == <<"s">>
nD == <<"d">>
wS == <<SLASH>> \o nS
wD == <<SLASH>> \o nD
WorkingDirs == {wS, wD}

nA == <<"a">> \o kDotConf
nB == <<"b">> \o kDotConf
nC == <<"c">>
nN == <<"n">> \o kDotConf
nSub == <<"s", "u", "b">>
nSubConf == <<"d">> \o kDotConf
nAA == <<"a">> \o kDotConf \o kDotConf

tTitleA == kTitle \o <<SP, "a", NL>>
tLinuxOptions == kLinux \o <<SP, SLASH, "a", NL>> \o kOptions \o <<SP, "a", SP, "a", NL>>
tCommentCRLF == <<HASH, SP, "c", CR, NL>> \o kTitle \o <<SP, "a">>
tBogus == kBogus \o <<SP, "x", NL>>
tDefaultTimeout == kDefault \o <<SP>> \o nA \o <<NL>> \o kTimeout \o <<SP, "5", NL>>
tCommentEditor ==
    <<HASH, SP, "c", NL>> \o kTimeout \o <<SP, "x", NL>> \o kEditor \o <<SP, "n", "o", NL>>

\* The contents /s/loader.conf starts with; None when the file is absent.
LoaderSamples == {None, Some(<<>>), Some(tDefaultTimeout), Some(tCommentEditor), Some(kEditor)}

\* What /s/entries may hold at the start: name and node.
DirentSamples ==
    { <<nA, File(tTitleA)>>,
      <<nA, File(tCommentCRLF)>>,
      <<nB, File(tLinuxOptions)>>,
      <<nB, File(tBogus)>>,
      <<nC, File(tTitleA)>>,
      <<nSub, Dir(<<>>)>>,
      <<nSubConf, Dir(<<>>)>> }

\* The listings of an entries directory: dirents of distinct names, in
\* enumeration order.
Listings(samples, n) ==
    {l \in SeqsUpTo(samples, n) : \A i, j \in 1..Len(l) : i # j => l[i][1] # l[j][1]}

Names(listing) == [i \in 1..Len(listing) |-> listing[i][1]]
NodeOf(listing, name) ==
    listing[CHOOSE i \in 1..Len(listing) : listing[i][1] = name][2]

\* A file system: /s with loader.conf (when loader # None) and entries/
\* (when listing # None), and /d empty or holding an empty entries/.
MkFs(loader, listing, dstEntries) ==
    (<<>> :> Dir(<<nS, nD>>))
        @@ (<<nS>> :> Dir((IF loader # None THEN <<kLoaderConf>> ELSE <<>>)
                          \o (IF listing # None THEN <<kEntries>> ELSE <<>>)))
        @@ (IF loader # None THEN <<nS, kLoaderConf>> :> File(loader[1]) ELSE <<>>)
        @@ (IF listing # None
            THEN (<<nS, kEntries>> :> Dir(Names(listing[1])))
                     @@ [p \in {<<nS, kEntries, listing[1][i][1]>> : i \in 1..Len(listing[1])} |->
                            NodeOf(listing[1], p[3])]
            ELSE <<>>)
        @@ (<<nD>> :> Dir(IF dstEntries THEN <<kEntries>> ELSE <<>>))
        @@ (IF dstEntries THEN <<nD, kEntries>> :> Dir(<<>>) ELSE <<>>)

(***************************************************************************)
(* Spec: a caller holding one SystemdBootConf loads it from a working      *)
(* directory, points it at another one and writes it.                      *)
(***************************************************************************)
InitialFileSystems ==
    {MkFs(loader, listing, dstEntries) :
        loader \in LoaderSamples,
        listing \in {None} \cup {Some(l) : l \in Listings(DirentSamples, MaxFiles)},
        dstEntries \in BOOLEAN}

Init ==
    /\ fs \in InitialFileSystems
    /\ sbc = SystemdBootConf_init(wS)
    /\ op = Call("SystemdBootConf::init", wS, None)
    /\ ret = None

\* A call that returned r and left the aggregate `self`, the file system g.
Returned(name, arg, r, self, g) ==
    /\ op' = Call(name, arg, None)
    /\ ret' = r
    /\ sbc' = self
    /\ fs' = g

\* A write of the aggregate that returned w = [ret, fs].
Wrote(name, w) == Returned(name, sbc.working_dir, w.ret, sbc, w.fs)

\* SystemdBootConf::load(working_dir); the caller keeps the aggregate it
\* had when load returns an error.
Loads(wd, r) == Returned("SystemdBootConf::load", wd, r, IF r.ok THEN r.val ELSE sbc, fs)
Load(wd) == Loads(wd, SystemdBootConf_load(fs, wd))

\* systemd_boot_conf.load_current()
LoadsCurrent(r) == Returned("load_current", sbc.working_dir, r.ret, r.self, fs)
LoadCurrent == LoadsCurrent(load_current(fs, sbc))

\* systemd_boot_conf.working_dir = wd (a public field)
SetWorkingDir(wd) ==
    /\ wd # sbc.working_dir
    /\ Returned("working_dir", wd, None, [sbc EXCEPT !.working_dir = wd], fs)

\* systemd_boot_conf.write_config()
WriteConfig == \E front \in BOOLEAN : Wrote("write_config", write_config(fs, sbc, front))

\* systemd_boot_conf.write_entries()
WriteEntries == \E front \in BOOLEAN : Wrote("write_entries", write_entries(fs, sbc, front))

\* systemd_boot_conf.write_all()
WriteAll == \E front \in BOOLEAN : Wrote("write_all", write_all(fs, sbc, front))

Next ==
    \/ \E wd \in WorkingDirs : Load(wd)
    \/ LoadCurrent
    \/ \E wd \in WorkingDirs : SetWorkingDir(wd)
    \/ WriteConfig
    \/ WriteEntries
    \/ WriteAll

Spec == Init /\ [][Next]_vars

(***************************************************************************)
(* EntrySpec: a caller makes entries, loads and writes single entry files  *)
(* and the entries of the aggregate over /s.                               *)
(***************************************************************************)
\* The listings /s/entries starts with.
EntryListings ==
    { <<>>,
      <<<<nA, File(tTitleA)>>>>,
      <<<<nAA, File(tLinuxOptions)>>>>,
      <<<<nSubConf, Dir(<<>>)>>, <<nA, File(tTitleA)>>>> }

EntryFileSystems == {MkFs(Some(<<>>), Some(l), FALSE) : l \in EntryListings}

\* The ids and token lists a caller gives Entry::new.
NewIds == {<<"a">>, <<"n">> \o kDotConf}
NewTokens == {<<Token("Title", <<"a">>)>>}

sEntries == PathJoin(wS, kEntries)
\* The paths a caller gives Entry::load.
LoadPaths ==
    { PathJoin(sEntries, nA), PathJoin(sEntries, nAA), PathJoin(sEntries, nN \o kDotConf),
      PathJoin(sEntries, nSubConf), PathJoin(sEntries, nC), sEntries,
      PathJoin(sEntries, kDotDot) }
\* The paths a caller gives Entry::write.
WritePaths ==
    { sEntries, PathJoin(sEntries, nA), PathJoin(sEntries, nSubConf),
      PathJoin(PathJoin(wD, kEntries), nA) }

EntryInit ==
    /\ fs \in EntryFileSystems
    /\ sbc = SystemdBootConf_init(wS)
    /\ op = Call("SystemdBootConf::init", wS, None)
    /\ ret = None

\* systemd_boot_conf.entries.push(Entry::new(id, tokens)), also EntryBuilder
\* and SystemdBootConfBuilder::entry
Pushed(arg, e) == Returned("Entry::new", arg, e, [sbc EXCEPT !.entries = Append(@, e)], fs)
PushEntry(id, tokens) ==
    /\ Len(sbc.entries) < MaxEntries
    /\ Pushed([id |-> id, tokens |-> tokens], Entry_new(id, tokens))

\* Entry::load(path)
EntryLoad(path) == Returned("Entry::load", path, Entry_load(fs, path), sbc, fs)

\* entry.write(path), for an entry of the aggregate
EntryWrote(arg, w) == Returned("Entry::write", arg, w.ret, sbc, w.fs)
EntryWrite(i, path) ==
    /\ i \in 1..Len(sbc.entries)
    /\ \E front \in BOOLEAN :
           EntryWrote([entry |-> sbc.entries[i], path |-> path],
                      Entry_write(fs, sbc.entries[i], path, front))

EntryNext ==
    \/ \E id \in NewIds, tokens \in NewTokens : PushEntry(id, tokens)
    \/ \E path \in LoadPaths : EntryLoad(path)
    \/ \E i \in 1..MaxEntries, path \in WritePaths : EntryWrite(i, path)
    \/ WriteEntries
    \/ LoadCurrent

EntrySpec == EntryInit /\ [][EntryNext]_vars

(***************************************************************************)
(* DefaultSpec: a caller sets the config of the aggregate over /s and      *)
(* resolves its default entry.                                             *)
(***************************************************************************)
DefaultDirentSamples ==
    { <<nA, File(tTitleA)>>, <<nB, File(tBogus)>>, <<nSubConf, Dir(<<>>)>> }

DefaultFileSystems ==
    {MkFs(Some(<<>>), Some(l), FALSE) : l \in Listings(DefaultDirentSamples, MaxFiles)}

\* The default names a caller gives Config::new: entry files by name, by a
\* relative path and with a trailing separator, a name without ".conf", a
\* subdirectory and a name that no listing holds.
DefaultSamples ==
    { nA, kDot \o <<SLASH>> \o nA, nA \o <<SLASH>>, nB, nC, nSubConf, <<"z">> \o kDotConf, <<>> }
ConfigSamples ==
    {Config_new(None, Some(U32(5)))} \cup {Config_new(Some(d), None) : d \in DefaultSamples}

\* The directories a caller gives default_entry.
DirectorySamples == {sEntries, sEntries \o <<SLASH>>, PathJoin(wD, kEntries)}

DefaultInit ==
    /\ fs \in DefaultFileSystems
    /\ sbc = SystemdBootConf_init(wS)
    /\ op = Call("SystemdBootConf::init", wS, None)
    /\ ret = None

\* systemd_boot_conf.config = Config::new(default, timeout), also
\* ConfigBuilder and SystemdBootConfBuilder::config
SetConfig(c) ==
    /\ c # sbc.config
    /\ Returned("Config::new", c, c, [sbc EXCEPT !.config = c], fs)

\* systemd_boot_conf.config.default_entry(directory)
DefaultEntry(directory) ==
    Returned("Config::default_entry", [config |-> sbc.config, directory |-> directory],
             Config_default_entry(fs, sbc.config, directory), sbc, fs)

DefaultNext ==
    \/ \E c \in ConfigSamples : SetConfig(c)
    \/ \E directory \in DirectorySamples : DefaultEntry(directory)

DefaultSpec == DefaultInit /\ [][DefaultNext]_vars

(***************************************************************************)
(* Properties of the aggregate, checked under Spec                         *)
(***************************************************************************)
\* The names of the regular files of directory node dir, in enumeration order.
RegularNames(f, dir) == SelectSeq(f[dir].list, LAMBDA n : f[Append(dir, n)].kind = "file")
Range(s) == {s[i] : i \in 1..Len(s)}

\* A text all of whose lines end with a single "\n".
LFLines(text) == Concat([i \in 1..Len(Lines(text)) |-> Lines(text)[i] \o <<NL>>]) = text
ValueOf(line) == SubSeq(line, Len(KeyOf(line)) + 2, Len(line))
\* A decimal u32 without sign or leading zeros.
PlainU32(v) == U32_from_str(v) # None /\ U32_to_string(U32_from_str(v)[1]) = v
IsDefaultLine(line) == HasSpace(line) /\ KeyOf(line) = kDefault
IsTimeoutLine(line) == HasSpace(line) /\ KeyOf(line) = kTimeout /\ PlainU32(ValueOf(line))

\* An entry file of "<keyword> <value>" lines only.
RenderedEntryText(text) ==
    /\ LFLines(text)
    /\ \A line \in Range(Lines(text)) : HasSpace(line) /\ KeyOf(line) \in EntryKeywords
\* A loader.conf of an optional default line, then an optional timeout line.
RenderedConfigText(text) ==
    /\ LFLines(text)
    /\ \/ Lines(text) = <<>>
       \/ Len(Lines(text)) = 1 /\ (IsDefaultLine(Lines(text)[1]) \/ IsTimeoutLine(Lines(text)[1]))
       \/ Len(Lines(text)) = 2 /\ IsDefaultLine(Lines(text)[1]) /\ IsTimeoutLine(Lines(text)[2])

\* The step is a write_all to /d of an aggregate that holds what a load of
\* /s yields.
WritesLoaded ==
    /\ op'.name = "write_all"
    /\ sbc.working_dir = wD
    /\ SystemdBootConf_load(fs, wS) = Ok(SystemdBootConf(wS, sbc.config, sbc.entries))

\* /d holds loader.conf and, under entries/, the regular files of
\* /s/entries and nothing else, each byte-identical to its source.
SameFiles(f, g) ==
    /\ <<nD, kLoaderConf>> \in DOMAIN g
    /\ g[<<nD, kLoaderConf>>] = f[<<nS, kLoaderConf>>]
    /\ <<nD, kEntries>> \in DOMAIN g => Range(g[<<nD, kEntries>>].list) = Range(RegularNames(f, <<nS, kEntries>>))
    /\ \A n \in Range(RegularNames(f, <<nS, kEntries>>)) :
           /\ <<nD, kEntries, n>> \in DOMAIN g
           /\ g[<<nD, kEntries, n>>] = f[<<nS, kEntries, n>>]

\* /d holds loader.conf and, under entries/, one file for each regular file
\* of /s/entries and nothing else; each is the rendering of what its source
\* parses to, and byte-identical to a source in rendered form.
RenderedFiles(f, g) ==
    /\ <<nD, kLoaderConf>> \in DOMAIN g
    /\ g[<<nD, kLoaderConf>>] =
           File(Config_to_string(Config_from_str(f[<<nS, kLoaderConf>>].data).val))
    /\ RenderedConfigText(f[<<nS, kLoaderConf>>].data)
           => g[<<nD, kLoaderConf>>] = f[<<nS, kLoaderConf>>]
    /\ Range(g[<<nD, kEntries>>].list) = Range(RegularNames(f, <<nS, kEntries>>))
    /\ \A n \in Range(RegularNames(f, <<nS, kEntries>>)) :
           /\ <<nD, kEntries, n>> \in DOMAIN g
           /\ g[<<nD, kEntries, n>>] =
                  File(Entry_to_string(Entry_from_str(f[<<nS, kEntries, n>>].data).val))
           /\ RenderedEntryText(f[<<nS, kEntries, n>>].data)
                  => g[<<nD, kEntries, n>>] = f[<<nS, kEntries, n>>]

\* A call repeated with no other call in between returns the same result
\* and leaves the same aggregate and the same files.
Idempotent ==
    /\ (op.name = "load_current" /\ op'.name = "load_current") => (ret' = ret /\ sbc' = sbc)
    /\ (op.name = "write_all" /\ op'.name = "write_all") => (ret' = ret /\ fs' = fs)

\* C3 as stated: writing a loaded aggregate to a fresh empty working
\* directory succeeds and leaves loader.conf and entries/<id>.conf files
\* byte-identical to those of the source; load_current and write_all
\* repeated on an unchanged source yield the same aggregate and files.
C3_FreshEmptyByteIdentical ==
    [][/\ (WritesLoaded /\ fs[<<nD>>] = Dir(<<>>)) => (ret'.ok /\ SameFiles(fs, fs'))
       /\ Idempotent]_vars

\* C3, amended: writing a loaded aggregate to a working directory that
\* holds an empty entries/ and nothing else succeeds and leaves loader.conf
\* and one entries/<id>.conf per regular file of the source, each the
\* rendering of what was loaded and byte-identical to a source file in
\* rendered form; written to an empty directory it fails when it holds an
\* entry; load_current and write_all repeated with nothing in between
\* yield the same result, aggregate and files.
C3_RoundTrip ==
    [][/\ (WritesLoaded /\ fs[<<nD>>] = Dir(<<kEntries>>) /\ fs[<<nD, kEntries>>] = Dir(<<>>))
              => (ret'.ok /\ RenderedFiles(fs, fs'))
       /\ (WritesLoaded /\ fs[<<nD>>] = Dir(<<>>) /\ sbc.entries # <<>>)
              => (ret' = Err(IOError("NotFound")) /\ <<nD, kLoaderConf>> \in DOMAIN fs')
       /\ Idempotent]_vars

\* The aggregate loaded from /s, a rendered loader.conf and two rendered
\* entry files, has been written to /d, which now holds the same three files.
C3_Witness ==
    /\ op.name = "write_all" /\ ret = Ok(<<>>) /\ sbc.working_dir = wD
    /\ Len(sbc.entries) = 2
    /\ fs[<<nS, kLoaderConf>>] = File(tDefaultTimeout)
    /\ <<nD, kLoaderConf>> \in DOMAIN fs /\ fs[<<nD, kLoaderConf>>] = File(tDefaultTimeout)
    /\ <<nD, kEntries, nA>> \in DOMAIN fs /\ fs[<<nD, kEntries, nA>>] = File(tTitleA)
    /\ <<nD, kEntries, nB>> \in DOMAIN fs /\ fs[<<nD, kEntries, nB>>] = File(tLinuxOptions)
    /\ <<nS, kEntries, nA>> \in DOMAIN fs /\ fs[<<nS, kEntries, nA>>] = File(tTitleA)
    /\ <<nS, kEntries, nB>> \in DOMAIN fs /\ fs[<<nS, kEntries, nB>>] = File(tLinuxOptions)

\* The last call was a load of working directory op.arg.
JustLoaded == op.name \in {"load_current", "SystemdBootConf::load"}
EntriesNode == Resolve(fs, PathJoin(op.arg, kEntries))
\* Everything load_current reads can be read: loader.conf parses, entries/
\* can be listed and every regular file in it loads as an Entry.
AllLoadable ==
    /\ Config_load(fs, PathJoin(op.arg, kLoaderConf)).ok
    /\ ReadDir(fs, PathJoin(op.arg, kEntries)).ok
    /\ \A n \in Range(RegularNames(fs, EntriesNode.val)) :
           Entry_load(fs, PathJoin(PathJoin(op.arg, kEntries), n)).ok

\* C10: after a successful load the entries of the aggregate are, in
\* enumeration order, the regular files directly under entries/, each with
\* the id of its file name and the tokens of its text; a subdirectory,
\* whatever its name, is passed over and never makes the load fail.
C10_DirectoryScan ==
    JustLoaded =>
        /\ ret.ok =>
               /\ Len(sbc.entries) = Len(RegularNames(fs, EntriesNode.val))
               /\ \A i \in 1..Len(sbc.entries) :
                      /\ sbc.entries[i].id \o kDotConf = RegularNames(fs, EntriesNode.val)[i]
                      /\ sbc.entries[i].tokens =
                             Entry_from_str(fs[Append(EntriesNode.val,
                                 RegularNames(fs, EntriesNode.val)[i])].data).val.tokens
        /\ AllLoadable => ret.ok

\* /s/entries lists a subdirectory named d.conf and then the file a.conf;
\* the load succeeded with the one entry a.
C10_Witness ==
    /\ op.name = "load_current" /\ op.arg = wS /\ ret = Ok(<<>>)
    /\ fs[<<nS, kEntries>>].list = <<nSubConf, nA>>
    /\ fs[<<nS, kEntries, nSubConf>>].kind = "dir"
    /\ Len(sbc.entries) = 1 /\ sbc.entries[1].id = <<"a">>

(***************************************************************************)
(* Properties of entry files, checked under EntrySpec                      *)
(***************************************************************************)
\* C4 as stated: no Entry made by Entry::new, returned by Entry::load or
\* held by the aggregate has an id that ends with ".conf".
C4_NoConfSuffix ==
    /\ \A i \in 1..Len(sbc.entries) : ~EndsWith(sbc.entries[i].id, kDotConf)
    /\ op.name = "Entry::new" => ~EndsWith(ret.id, kDotConf)
    /\ (op.name = "Entry::load" /\ ret.ok) => ~EndsWith(ret.val.id, kDotConf)

\* C4, amended: Entry::new keeps the id it is given; Entry::load yields the
\* id which, with ".conf" appended once, is the file name of the path, and
\* refuses a path whose file name does not end with ".conf"; load_current
\* yields such an id for each regular file; write_entries leaves a file
\* entries/<id>.conf, the id with ".conf" appended once, for every entry.
C4_IdAndFileName ==
    /\ op.name = "Entry::new" => ret.id = op.arg.id
    /\ op.name = "Entry::load" =>
           IF FileName(op.arg) # None /\ EndsWith(FileName(op.arg)[1], kDotConf)
           THEN ret.ok => FileName(op.arg) = Some(ret.val.id \o kDotConf)
           ELSE ret = Err(InvalidEntryFilename(op.arg))
    /\ (op.name = "load_current" /\ ret.ok) =>
           \A i \in 1..Len(sbc.entries) :
               sbc.entries[i].id \o kDotConf = RegularNames(fs, <<nS, kEntries>>)[i]
    /\ (op.name = "write_entries" /\ ret.ok) =>
           \A i \in 1..Len(sbc.entries) :
               /\ <<nS, kEntries, sbc.entries[i].id \o kDotConf>> \in DOMAIN fs
               /\ fs[<<nS, kEntries, sbc.entries[i].id \o kDotConf>>].kind = "file"

\* An entry made with the id "n.conf" was written by write_entries to
\* n.conf.conf and load_current read it back with the id "n.conf".
C4_Witness ==
    /\ op.name = "load_current" /\ ret = Ok(<<>>)
    /\ <<nS, kEntries, nN \o kDotConf>> \in DOMAIN fs
    /\ \E i \in 1..Len(sbc.entries) : sbc.entries[i].id = nN

\* Node g[p] is node f[p] but for names added to a directory.
Kept(f, g, p) ==
    /\ p \in DOMAIN f /\ p \in DOMAIN g
    /\ IF f[p].kind = "file" THEN g[p] = f[p]
       ELSE g[p].kind = "dir" /\ Range(f[p].list) \subseteq Range(g[p].list)
\* From f to g no node but those of `nodes` was created or modified.
OnlyWrote(f, g, nodes) ==
    /\ \A p \in (DOMAIN f \cup DOMAIN g) \ nodes : Kept(f, g, p)
    /\ \A p \in DOMAIN f : f[p].kind = "dir" =>
           \A n \in Range(g[p].list) \ Range(f[p].list) : Append(p, n) \in nodes

IsDir(f, p) == Resolve(f, p).ok /\ Resolve(f, p).val \in DOMAIN f /\ f[Resolve(f, p).val].kind = "dir"

Target(f, arg) == Resolve(f, arg.path)
Writable(f, r) == r.ok /\ (r.val \in DOMAIN f => f[r.val].kind = "file")
\* The nodes write_entries writes for the aggregate.
EntryNodes(self) ==
    {<<nS, kEntries, self.entries[i].id \o kDotConf>> : i \in 1..Len(self.entries)}
LastWith(self, id) ==
    self.entries[CHOOSE i \in 1..Len(self.entries) :
        /\ self.entries[i].id = id
        /\ \A j \in (i + 1)..Len(self.entries) : self.entries[j].id # id]

DefaultPath == PathJoin(op.arg.directory, op.arg.config.default[1])
\* No file at the path: the name is not in its directory, or a directory
\* on the way does not exist.
Absent(f, r) == IF r.ok THEN r.val \notin DOMAIN f ELSE r = Err(IOError("NotFound"))
Present(f, r) == r.ok /\ r.val \in DOMAIN f /\ f[r.val].kind = "file"
HasConfName(path) == FileName(path) # None /\ EndsWith(FileName(path)[1], kDotConf)

\* What C5 says of every failure, and of an unset default.
C5_Failures ==
    /\ op.arg.config.default = None => ret = Ok(None)
    /\ op.arg.config.default # None =>
           /\ ret # Ok(None)
           /\ ret.ok => ret.val # None
           /\ ~HasConfName(DefaultPath) => ret = Err(InvalidEntryFilename(DefaultPath))
           /\ (HasConfName(DefaultPath) /\ Absent(fs, Resolve(fs, DefaultPath)))
                  => ret = Err(IOError("NotFound"))
           /\ (HasConfName(DefaultPath) /\ Present(fs, Resolve(fs, DefaultPath))) =>
                  IF Entry_from_str(fs[Resolve(fs, DefaultPath).val].data).ok
                  THEN /\ ret.ok
                       /\ ret.val[1].tokens =
                              Entry_from_str(fs[Resolve(fs, DefaultPath).val].data).val.tokens
                  ELSE /\ ret = Entry_from_str(fs[Resolve(fs, DefaultPath).val].data)
                       /\ ret.err.kind \in {"EntryParseError", "InvalidToken"}

\* C5 as stated: with the default unset the result is Ok(None); with it set
\* the Entry at <entries_dir>/<default> is returned with the id equal to the
\* default minus ".conf", and every failure is an error, never Ok(None).
C5_IdIsDefaultMinusConf ==
    op.name = "Config::default_entry" =>
        /\ C5_Failures
        /\ (op.arg.config.default # None /\ ret.ok) =>
               Some(ret.val[1].id) = StripSuffix(op.arg.config.default[1], kDotConf)

\* C5, amended: as stated, but the id of the Entry returned is the file
\* name, the last component, of <entries_dir>/<default> minus ".conf".
C5_DefaultResolution ==
    op.name = "Config::default_entry" =>
        /\ C5_Failures
        /\ (op.arg.config.default # None /\ ret.ok) =>
               FileName(DefaultPath) = Some(ret.val[1].id \o kDotConf)

\* The default "./a.conf" resolved to the entry of /s/entries/a.conf, id "a".
C5_Witness ==
    /\ op.name = "Config::default_entry"
    /\ op.arg.config.default = Some(kDot \o <<SLASH>> \o nA)
    /\ ret.ok /\ ret.val[1].id = <<"a">> /\ ret.val[1].tokens = <<Token("Title", <<"a">>)>>

(***************************************************************************)
(* Properties of a failing load, checked under Spec                        *)
(***************************************************************************)
\* Everything a load of working directory wd reads can be read.
AllLoadableIn(f, wd) ==
    /\ Config_load(f, PathJoin(wd, kLoaderConf)).ok
    /\ ReadDir(f, PathJoin(wd, kEntries)).ok
    /\ \A n \in Range(RegularNames(f, Resolve(f, PathJoin(wd, kEntries)).val)) :
           Entry_load(f, PathJoin(PathJoin(wd, kEntries), n)).ok

\* The error a failing load of wd returns: that of loader.conf, else that
\* of listing entries/, else that of a regular file under entries/.
FailureOf(f, wd, r) ==
    IF ~Config_load(f, PathJoin(wd, kLoaderConf)).ok
    THEN r = Config_load(f, PathJoin(wd, kLoaderConf))
    ELSE IF ~ReadDir(f, PathJoin(wd, kEntries)).ok
    THEN r = ReadDir(f, PathJoin(wd, kEntries))
    ELSE \E n \in Range(RegularNames(f, Resolve(f, PathJoin(wd, kEntries)).val)) :
             /\ ~Entry_load(f, PathJoin(PathJoin(wd, kEntries), n)).ok
             /\ r = Entry_load(f, PathJoin(PathJoin(wd, kEntries), n))

\* C11: when loader.conf cannot be read or parsed, entries/ cannot be
\* listed, or a regular file under entries/ fails Entry::load, load_current
\* returns that error and leaves the config and the entries of the
\* aggregate as they were, and load returns the error and no aggregate;
\* the aggregate is assigned only when every file loaded.
C11_AllOrNothing ==
    [][/\ op'.name = "load_current" =>
              IF AllLoadableIn(fs, sbc.working_dir)
              THEN /\ ret' = Ok(<<>>)
                   /\ sbc'.config = Config_load(fs, PathJoin(sbc.working_dir, kLoaderConf)).val
                   /\ sbc'.working_dir = sbc.working_dir
              ELSE /\ ~ret'.ok /\ FailureOf(fs, sbc.working_dir, ret')
                   /\ sbc' = sbc
       /\ op'.name = "SystemdBootConf::load" =>
              IF AllLoadableIn(fs, op'.arg)
              THEN ret'.ok /\ sbc' = ret'.val /\ sbc'.working_dir = op'.arg
              ELSE /\ ~ret'.ok /\ FailureOf(fs, op'.arg, ret')
                   /\ DOMAIN ret' = {"ok", "err"}
                   /\ sbc' = sbc]_vars

\* The aggregate loaded from /s was pointed at /d, whose loader.conf is
\* empty and which has no entries/: load_current failed on entries/ and the
\* aggregate still holds the config and the entry of /s.
C11_Witness ==
    /\ op.name = "load_current" /\ op.arg = wD /\ ret = Err(IOError("NotFound"))
    /\ <<nD, kLoaderConf>> \in DOMAIN fs /\ fs[<<nD, kLoaderConf>>] = File(<<>>)
    /\ sbc.working_dir = wD
    /\ sbc.config = Config(Some(nA), Some(U32(5)))
    /\ Len(sbc.entries) = 1 /\ sbc.entries[1].id = <<"a">>

(***************************************************************************)
(* WriteSpec: a caller makes the entries of an aggregate and writes it to  *)
(* /s, where a write may fail, or to /x, which does not exist.             *)
(***************************************************************************)
wX == <<SLASH, "x">>
WriteDirs == {wS, wX}

\* The listings /s/entries starts with; None when /s has no entries/.
WriteListings ==
    { None,
      Some(<<>>),
      Some(<<<<nSubConf, Dir(<<>>)>>>>),
      Some(<<<<nSubConf, Dir(<<>>)>>, <<nA, File(tLinuxOptions)>>>>) }

WriteFileSystems ==
    {MkFs(loader, listing, FALSE) :
        loader \in {None, Some(tDefaultTimeout)}, listing \in WriteListings}

\* The ids and token lists a caller gives Entry::new: entries/d.conf may be
\* a directory.
WriteIds == {<<"a">>, <<"d">>}
WriteTokens == {<<>>, <<Token("Title", <<"a">>)>>}

WriteInit ==
    /\ fs \in WriteFileSystems
    /\ sbc = SystemdBootConf_init(wS)
    /\ op = Call("SystemdBootConf::init", wS, None)
    /\ ret = None

WriteNext ==
    \/ \E id \in WriteIds, tokens \in WriteTokens : PushEntry(id, tokens)
    \/ \E wd \in WriteDirs : SetWorkingDir(wd)
    \/ WriteConfig
    \/ WriteEntries
    \/ WriteAll

WriteSpec == WriteInit /\ [][WriteNext]_vars

(***************************************************************************)
(* Properties of the writes, checked under WriteSpec                       *)
(***************************************************************************)
\* The writes a call asks for, in the order the claim gives them: the path
\* and the text of each.
ConfigWrites(self) ==
    <<[path |-> PathJoin(self.working_dir, kLoaderConf), data |-> Config_to_string(self.config)]>>
EntryWrites(self) ==
    [i \in 1..Len(self.entries) |->
        [path |-> PathJoin(PathJoin(self.working_dir, kEntries), self.entries[i].id \o kDotConf),
         data |-> Entry_to_string(self.entries[i])]]
WritesOf(name, self) ==
    CASE name = "write_config" -> ConfigWrites(self)
      [] name = "write_entries" -> EntryWrites(self)
      [] name = "write_all" -> ConfigWrites(self) \o EntryWrites(self)

\* The first write of ws that cannot succeed in f, Len(ws) + 1 when all can.
Failing(f, ws) == {i \in 1..Len(ws) : ~Writable(f, Resolve(f, ws[i].path))}
FirstFailing(f, ws) ==
    IF Failing(f, ws) = {} THEN Len(ws) + 1
    ELSE CHOOSE i \in Failing(f, ws) : \A j \in Failing(f, ws) : i <= j
\* The error of a write that cannot succeed.
WriteError(f, w) ==
    IF Resolve(f, w.path).ok THEN Err(IOError("IsADirectory")) ELSE Resolve(f, w.path)
\* The last of the first k - 1 writes of ws that goes to node p.
LastTo(f, ws, k, p) ==
    ws[CHOOSE i \in 1..(k - 1) :
        /\ Resolve(f, ws[i].path).val = p
        /\ \A j \in (i + 1)..(k - 1) : Resolve(f, ws[j].path).val # p]

\* From f to g exactly the first k - 1 writes of ws were made, and r is the
\* error of write k or, when there is none, success.
PrefixWritten(f, g, r, ws, k) ==
    /\ r = IF k > Len(ws) THEN Ok(<<>>) ELSE WriteError(f, ws[k])
    /\ \A i \in 1..(k - 1) :
           /\ Resolve(f, ws[i].path).val \in DOMAIN g
           /\ g[Resolve(f, ws[i].path).val]
                  = File(LastTo(f, ws, k, Resolve(f, ws[i].path).val).data)
    /\ OnlyWrote(f, g, {Resolve(f, ws[i].path).val : i \in 1..(k - 1)})

\* C12: write_all writes loader.conf and then the entry files in the order
\* of the entries, write_entries the entry files in that order, and each
\* stops at the first write that fails and returns its error: the files
\* written are those before it, they stay on disk, no later one is
\* written, and none at all when loader.conf fails; the aggregate is left
\* as it was.
C12_WritePrefix ==
    [][op'.name \in {"write_config", "write_entries", "write_all"} =>
           /\ PrefixWritten(fs, fs', ret', WritesOf(op'.name, sbc),
                            FirstFailing(fs, WritesOf(op'.name, sbc)))
           /\ sbc' = sbc]_vars

\* write_all of the entries d and a, with entries/d.conf a directory:
\* loader.conf was written, the write of d.conf failed and a.conf, which
\* comes after it, was not written.
C12_Witness ==
    /\ op.name = "write_all" /\ op.arg = wS /\ ret = Err(IOError("IsADirectory"))
    /\ Len(sbc.entries) = 2 /\ sbc.entries[1].id = <<"d">> /\ sbc.entries[2].id = <<"a">>
    /\ <<nS, kLoaderConf>> \in DOMAIN fs /\ fs[<<nS, kLoaderConf>>] = File(<<>>)
    /\ fs[<<nS, kEntries, nSubConf>>].kind = "dir"
    /\ <<nS, kEntries, nA>> \notin DOMAIN fs

(***************************************************************************)
(* PersistSpec: a caller makes the entries of an aggregate over /s, makes  *)
(* one of them the default, writes the aggregate and resolves the default. *)
(***************************************************************************)
\* The listings /s/entries starts with: empty, or holding a file n.conf.
PersistListings == {<<>>, <<<<nN, File(tLinuxOptions)>>>>}

PersistFileSystems == {MkFs(Some(<<>>), Some(l), FALSE) : l \in PersistListings}

PersistInit ==
    /\ fs \in PersistFileSystems
    /\ sbc = SystemdBootConf_init(wS)
    /\ op = Call("SystemdBootConf::init", wS, None)
    /\ ret = None

\* systemd_boot_conf.config.set_default(&systemd_boot_conf.entries[i])
SetDefault(i) ==
    /\ i \in 1..Len(sbc.entries)
    /\ Returned("Config::set_default", sbc.entries[i], None,
                [sbc EXCEPT !.config = Config_set_default(@, sbc.entries[i])], fs)

PersistNext ==
    \/ \E id \in NewIds, tokens \in WriteTokens : PushEntry(id, tokens)
    \/ \E i \in 1..MaxEntries : SetDefault(i)
    \/ WriteAll
    \/ DefaultEntry(sEntries)

PersistSpec == PersistInit /\ [][PersistNext]_vars

(***************************************************************************)
(* Properties of the persisted default, checked under PersistSpec          *)
(***************************************************************************)
\* The default of the config is what set_default records for entry i.
Selected(i) == sbc.config = Config_set_default(sbc.config, sbc.entries[i])
\* The files are as a successful write_all of the aggregate leaves them.
Persisted == write_all(fs, sbc, TRUE) = [ret |-> Ok(<<>>), fs |-> fs]
ResolvedDefault ==
    /\ op.name = "Config::default_entry"
    /\ op.arg = [config |-> sbc.config, directory |-> PathJoin(sbc.working_dir, kEntries)]

\* C13 as stated: for any aggregate and any entry e of it, after
\* set_default(e) and a successful write_all, default_entry on
\* <working_dir>/entries succeeds and returns an Entry equal to e.
C13_DefaultSurvives ==
    (ResolvedDefault /\ Persisted) =>
        \A i \in 1..Len(sbc.entries) : Selected(i) => ret = Ok(Some(sbc.entries[i]))

\* C13 for an entry whose id does not end with ".conf" and that is the
\* last entry of that id: there default_entry returns an Entry equal to it.
C13_SuffixFreeSurvives ==
    (ResolvedDefault /\ Persisted) =>
        \A i \in 1..Len(sbc.entries) :
            (/\ Selected(i)
             /\ ~EndsWith(sbc.entries[i].id, kDotConf)
             /\ \A j \in (i + 1)..Len(sbc.entries) : sbc.entries[j].id # sbc.entries[i].id)
                => ret = Ok(Some(sbc.entries[i]))

\* The entry with the id "n.conf" was made the default and the aggregate
\* written: loader.conf names n.conf, the entry is in n.conf.conf, and
\* default_entry found no file n.conf.
C13_Witness ==
    /\ ResolvedDefault /\ Persisted
    /\ Len(sbc.entries) = 1 /\ sbc.entries[1].id = nN /\ Selected(1)
    /\ fs[<<nS, kLoaderConf>>] = File(kDefault \o <<SP>> \o nN \o <<NL>>)
    /\ <<nS, kEntries, nN \o kDotConf>> \in DOMAIN fs
    /\ <<nS, kEntries, nN>> \notin DOMAIN fs
    /\ ret = Err(IOError("NotFound"))

====
